---- MODULE Spec2Model ----
(***************************************************************************)
(* LAL: natural language to shell commands.                                *)
(*   src/api_server.py       the rate-limited proxy (POST /generate,       *)
(*                           GET /usage/<token>, GET /health)              *)
(*   src/Extra/lal.py        the local tool (click, provider classes)      *)
(*   src/Extra/lal_simple.py the local tool without dependencies           *)
(*                                                                         *)
(* Strings that the code only compares or passes on are TLA+ strings;      *)
(* text a provider returns is a sequence of characters, so that .strip()   *)
(* is computed; an error message is a sequence of its parts, so that       *)
(* startswith("API error") and the "API" in str(e) test are computed.      *)
(***************************************************************************)
EXTENDS Integers, Sequences, FiniteSets, TLC

VARIABLES
    program,            \* which of the three programs this process runs
    ANTHROPIC_API_KEY,  \* the environment variable: TRUE iff set and non-empty
    OPENAI_API_KEY,     \* (api_server.py:15-16, lal.py:114-119, lal_simple.py:158-159)
    usage_tracker,      \* api_server.py:19, dict: key -> count
    today,              \* the calendar day datetime.now() falls on
    last,               \* the outcome of the operation that finished last
    reached,            \* history: per key, the requests that entered check_rate_limit
    threads             \* the request handlers in flight (concurrent dispatch)

vars == <<program, ANTHROPIC_API_KEY, OPENAI_API_KEY, usage_tracker, today, last, reached, threads>>

----------------------------------------------------------------------------
(* Bounds of the model *)

\* days the clock can move past the first one
MaxDay == 1
\* requests of one caller and day let in past the DAILY_LIMIT-th
MaxOver == 2
\* request handlers that run concurrently
MaxThreads == 2
\* requests the concurrent handlers take between them
MaxRequests == 3
\* how far below DAILY_LIMIT the count may stand when concurrent handling starts
MaxBelow == 2

(* Program constants *)

DAILY_LIMIT == 50

Days == 0..MaxDay
\* get_user_id: the md5 of the remote address, one value per address
Users == {"u1"}
\* mutant: the day left out of the key
KeyWithoutDay(user_id, day) == <<user_id, 0>>

\* f"{user_id}:{today}"
Key(user_id, day) == <<user_id, day>>
Keys == {Key(u, d) : u \in Users, d \in Days}

----------------------------------------------------------------------------
Programs == {"api_server", "lal", "lal_simple"}

(* Python values *)

Whitespace == {" ", "\t", "\n"}

RECURSIVE LStrip(_)
LStrip(s) == IF s # <<>> /\ Head(s) \in Whitespace THEN LStrip(Tail(s)) ELSE s

RECURSIVE RStrip(_)
RStrip(s) ==
    IF s # <<>> /\ s[Len(s)] \in Whitespace THEN RStrip(SubSeq(s, 1, Len(s) - 1)) ELSE s

\* mutant: only the leading whitespace removed
StripLeft(s) == LStrip(s)

\* str.strip()
Strip(s) == RStrip(LStrip(s))

\* dict.get(key, default)
DictGet(d, k, default) == IF k \in DOMAIN d THEN d[k] ELSE default

\* d[k] = v
DictSet(d, k, v) == [x \in DOMAIN d \cup {k} |-> IF x = k THEN v ELSE d[x]]

\* the empty dict
EmptyDict == [x \in {} |-> 0]

\* str.startswith, on a message kept as the sequence of its parts
StartsWith(msg, prefix) == msg # <<>> /\ Head(msg) = prefix

----------------------------------------------------------------------------
(* What a vendor's endpoint can answer to one POST (the input of a call).  *)
(*   arrived  the transport delivered a response (no exception from post)  *)
(*   json     the response body parses as JSON                             *)
(*   status   the HTTP status                                              *)
(*   shape    the payload has the fields the client indexes                *)
(*   text     the generated text, when shape                               *)
(*   error    the payload's error value, as the vendor words it            *)

Vendors == {"anthropic", "openai"}

\* " ls -la\n" and "ls": what a model answers, before trimming
Texts == { <<" ", "l", "s", " ", "-", "l", "a", "\n">>, <<"l", "s">> }

Reply(arrived, json, status, shape, text, v) ==
    [arrived |-> arrived, json |-> json, status |-> status, shape |-> shape,
     text |-> text, error |-> <<v, "overloaded">>]

Replies(v) ==
    {Reply(TRUE, TRUE, 200, TRUE, t, v) : t \in Texts}
    \cup {Reply(TRUE, TRUE, 200, FALSE, <<>>, v),     \* 200, field missing
          Reply(TRUE, TRUE, 529, TRUE, <<>>, v),      \* non-success, JSON error body
          Reply(TRUE, FALSE, 502, FALSE, <<>>, v),    \* non-success, body is not JSON
          Reply(FALSE, FALSE, 0, FALSE, <<>>, v)}     \* the transport raises

\* the reply of a call that is never made
NoReply == Reply(FALSE, FALSE, 0, FALSE, <<>>, "nobody")

\* a function's outcome: a returned value or a raised exception with its str()
Return(v) == [raised |-> FALSE, value |-> v, msg |-> <<>>]
Raise(msg) == [raised |-> TRUE, value |-> <<>>, msg |-> msg]

----------------------------------------------------------------------------
(* api_server.py *)

\* mutant: > for >=
LimitReachedStrict(count) == count > DAILY_LIMIT

\* usage_tracker[key] >= DAILY_LIMIT
LimitReached(count) == count >= DAILY_LIMIT

\* check_rate_limit that allows a request without counting it
check_rate_limit_uncounted(tracker, user_id, day) ==
    LET key == Key(user_id, day)
        t0 == IF key \notin DOMAIN tracker THEN DictSet(tracker, key, 0) ELSE tracker
    IN  [allowed |-> ~LimitReached(t0[key]), tracker |-> t0]

\* check_rate_limit: [allowed, tracker], run without interruption
check_rate_limit(tracker, user_id, day) ==
    LET key == Key(user_id, day)
        t0 == IF key \notin DOMAIN tracker THEN DictSet(tracker, key, 0) ELSE tracker
    IN  IF LimitReached(t0[key])
        THEN [allowed |-> FALSE, tracker |-> t0]
        ELSE [allowed |-> TRUE, tracker |-> DictSet(t0, key, t0[key] + 1)]

\* the body of call_anthropic / call_openai after the request is built
ServerCall(v, reply) ==
    IF ~reply.arrived THEN Raise(<<"ConnectionError", v>>)
    ELSE IF ~reply.json THEN Raise(<<"JSONDecodeError", v>>)
    ELSE IF reply.status = 200
         THEN IF reply.shape THEN Return(Strip(reply.text))
              ELSE Raise(<<"KeyError", v>>)
         ELSE Raise(<<"API error", ": ">> \o reply.error)

call_anthropic(reply) == ServerCall("anthropic", reply)

call_openai(reply) == ServerCall("openai", reply)

\* request.get_json(): the parsed body, None, or an HTTP exception raised
\*   parsed FALSE: the body is no JSON (or no JSON content type): get_json raises
\*   none TRUE:    the body is the JSON null
JsonBody(parsed, none, obj) == [parsed |-> parsed, none |-> none, obj |-> obj]

Prompts == {"", "list all files"}

Bodies ==
    {JsonBody(FALSE, FALSE, EmptyDict), JsonBody(TRUE, TRUE, EmptyDict),
     JsonBody(TRUE, FALSE, EmptyDict), JsonBody(TRUE, FALSE, [model |-> "x"])}
    \cup {JsonBody(TRUE, FALSE, [prompt |-> p]) : p \in Prompts}

\* not data or 'prompt' not in data
MissingPrompt(data) == data.none \/ DOMAIN data.obj = {} \/ "prompt" \notin DOMAIN data.obj

\* mutant: no branch for the case that neither key is set
ServerPrimaryUnchecked(akey, okey) == IF akey THEN "anthropic" ELSE "openai"

\* the primary vendor of the server: Anthropic when its key is set
ServerPrimary(akey, okey) ==
    IF akey THEN "anthropic" ELSE IF okey THEN "openai" ELSE "none"

\* the except clause's test for trying the fallback
FallbackWanted(msg, akey, okey) == StartsWith(msg, "API error") /\ okey /\ akey

\* jsonify(...), status: the response of /generate. fields are the keys of the
\* JSON object; the rest records the handling (calls made, days read, ordinal).
Response(status, fields, error, command, remaining) ==
    [status |-> status, fields |-> fields, error |-> error, command |-> command,
     remaining_requests |-> remaining]

\* lines 118-134: ok with the command, or the 500 response the failure ends in
ProviderPhase(akey, okey, r1, r2) ==
    LET p == ServerPrimary(akey, okey)
        out(ok, resp, command, calls, replies) ==
            [ok |-> ok, resp |-> resp, command |-> command, calls |-> calls,
             replies |-> replies]
        fail(msg) == Response(500, {"error"}, msg, <<>>, 0)
    IN
    IF p = "none"
    THEN out(FALSE, fail(<<"No API keys configured on server">>), <<>>, <<>>, <<>>)
    ELSE
      LET c1 == IF p = "anthropic" THEN call_anthropic(r1) ELSE call_openai(r1) IN
      IF ~c1.raised THEN out(TRUE, fail(<<>>), c1.value, <<p>>, <<r1>>)
      ELSE IF FallbackWanted(c1.msg, akey, okey)
      THEN LET c2 == call_openai(r2) IN
           IF ~c2.raised THEN out(TRUE, fail(<<>>), c2.value, <<p, "openai">>, <<r1, r2>>)
           ELSE out(FALSE, fail(<<"Both APIs failed: ">> \o c2.msg), <<>>,
                    <<p, "openai">>, <<r1, r2>>)
      \* raise: caught at line 144
      ELSE out(FALSE, fail(c1.msg), <<>>, <<p>>, <<r1>>)

\* Does the primary call of this configuration raise an error the fallback is tried on?
NeedsFallback(akey, okey, r1) ==
    LET p == ServerPrimary(akey, okey) IN
    /\ p # "none"
    /\ LET c1 == ServerCall(p, r1) IN c1.raised /\ FallbackWanted(c1.msg, akey, okey)

\* DAILY_LIMIT - usage_tracker.get(key, 0)
Remaining(tracker, user_id, day) == DAILY_LIMIT - DictGet(tracker, Key(user_id, day), 0)

\* what last holds after a /generate request
\*   entered  check_rate_limit was called;  allowed  it returned True
\*   calls    the vendors called, in order;  replies  what each call was answered
\*   day1     the day check_rate_limit read;  day2  the day line 137 read
\*   nth      the request's ordinal among those that entered for its key
Handled(user, data, resp, entered, allowed, calls, replies, day1, day2, nth) ==
    [op |-> "generate", user |-> user, data |-> data, resp |-> resp,
     entered |-> entered, allowed |-> allowed, calls |-> calls, replies |-> replies,
     day1 |-> day1, day2 |-> day2, nth |-> nth]

\* POST /generate, handled without interruption by another request. The clock may
\* pass midnight between check_rate_limit's now() and line 137's.
Generate ==
    /\ program = "api_server"
    /\ UNCHANGED <<program, ANTHROPIC_API_KEY, OPENAI_API_KEY, threads>>
    /\ \E user \in Users, data \in Bodies :
         IF ~data.parsed
         THEN \* get_json raises inside the outer try: line 144
              /\ last' = Handled(user, data,
                                 Response(500, {"error"}, <<"BadRequest">>, <<>>, 0),
                                 FALSE, FALSE, <<>>, <<>>, today, today, 0)
              /\ UNCHANGED <<usage_tracker, today, reached>>
         ELSE IF MissingPrompt(data)
         THEN /\ last' = Handled(user, data,
                                 Response(400, {"error"}, <<"Missing prompt">>, <<>>, 0),
                                 FALSE, FALSE, <<>>, <<>>, today, today, 0)
              /\ UNCHANGED <<usage_tracker, today, reached>>
         ELSE
           LET key == Key(user, today)
               rl == check_rate_limit(usage_tracker, user, today)
               akey == ANTHROPIC_API_KEY
               okey == OPENAI_API_KEY
           IN
           /\ reached[key] < DAILY_LIMIT + MaxOver
           /\ reached' = [reached EXCEPT ![key] = @ + 1]
           /\ usage_tracker' = rl.tracker
           /\ IF ~rl.allowed
              THEN /\ last' = Handled(user, data,
                                 Response(429, {"error", "message"},
                                          <<"Rate limit exceeded">>, <<>>, 0),
                                 TRUE, FALSE, <<>>, <<>>, today, today, reached'[key])
                   /\ today' = today
              ELSE
                \E r1 \in (IF ServerPrimary(akey, okey) = "none" THEN {NoReply}
                           ELSE Replies(ServerPrimary(akey, okey))) :
                \E r2 \in (IF NeedsFallback(akey, okey, r1) THEN Replies("openai")
                           ELSE {NoReply}) :
                  LET ph == ProviderPhase(akey, okey, r1, r2) IN
                  IF ~ph.ok
                  THEN /\ last' = Handled(user, data, ph.resp, TRUE, TRUE, ph.calls, ph.replies,
                                          today, today, reached'[key])
                       /\ today' = today
                  ELSE \E day2 \in {today, today + 1} \cap Days :
                       /\ today' = day2
                       /\ last' = Handled(user, data,
                                     Response(200, {"command", "remaining_requests"}, <<>>,
                                              ph.command, Remaining(rl.tracker, user, day2)),
                                     TRUE, TRUE, ph.calls, ph.replies, today, day2, reached'[key])

\* GET /usage/<user_token>: the token is used as the caller id as it comes
Tokens == Users \cup {"someone"}

get_usage ==
    /\ program = "api_server"
    /\ \E user_token \in Tokens :
         LET used == DictGet(usage_tracker, Key(user_token, today), 0) IN
         last' = [op |-> "usage", token |-> user_token, daily_limit |-> DAILY_LIMIT,
                  used_today |-> used, remaining_today |-> DAILY_LIMIT - used,
                  date |-> today]
    /\ UNCHANGED <<program, ANTHROPIC_API_KEY, OPENAI_API_KEY, usage_tracker, today, reached, threads>>

\* GET /health
health_check ==
    /\ program = "api_server"
    /\ last' = [op |-> "health", status |-> "healthy"]
    /\ UNCHANGED <<program, ANTHROPIC_API_KEY, OPENAI_API_KEY, usage_tracker, today, reached, threads>>

\* midnight passes while no request is being handled
Tick ==
    /\ program = "api_server"
    /\ today < MaxDay
    /\ today' = today + 1
    /\ UNCHANGED <<program, ANTHROPIC_API_KEY, OPENAI_API_KEY, usage_tracker, last, reached, threads>>

----------------------------------------------------------------------------
(* The local tools. One process runs main once and exits. *)

\* Python's None, where a str is optional
NONE == "<None>"

\* truth value of an optional str
Truthy(x) == x # NONE /\ x # ""

\* the name the tools print for a vendor's credential
EnvName(v) == IF v = "openai" THEN "OPENAI_API_KEY" ELSE "ANTHROPIC_API_KEY"

\* the parts of a message in which the substring "API" occurs
ApiParts ==
    {"OPENAI_API_KEY", "ANTHROPIC_API_KEY", "OpenAI API error", "Anthropic API error",
     "API error", "OpenAI API key", "Anthropic API key"}

\* "API" in str(e)
HasAPI(msg) == \E i \in 1..Len(msg) : msg[i] \in ApiParts

\* str(e) of what makes a provider client fail on this reply
Cause(v, reply) ==
    IF ~reply.arrived THEN <<"ConnectionError", v>>
    ELSE IF reply.status # 200 THEN <<"HTTP Error", v>>
    ELSE IF ~reply.json THEN <<"JSONDecodeError", v>>
    ELSE <<"KeyError", v>>

\* the try body of a provider client of the local tools: the text, trimmed
ReplyGood(reply) == reply.arrived /\ reply.status = 200 /\ reply.json /\ reply.shape

\* what last holds after a local tool's main
\*   kind     "config", "usage", "error" (a message printed) or "command" (shown)
\*   calls    the provider clients invoked, in order
\*   asked    the confirmation question was put
\*   shell    the strings handed to os.system, in order
\*   replies  what each call was answered;  answer  what was answered, if asked
Ran(op, args, kind, error, hint, calls, replies, command, asked, answer, shell) ==
    [op |-> op, args |-> args, kind |-> kind, error |-> error, hint |-> hint,
     calls |-> calls, replies |-> replies, command |-> command, asked |-> asked,
     answer |-> answer, shell |-> shell]

(* lal.py *)

\* OpenAIProvider.generate_command / AnthropicProvider.generate_command
LalGenerate(v, reply) ==
    IF ReplyGood(reply) THEN Return(Strip(reply.text))
    ELSE Raise(<<IF v = "openai" THEN "OpenAI API error" ELSE "Anthropic API error", ": ">>
               \o Cause(v, reply))

\* mutant: OpenAI checked first
get_ai_provider_openai_first(akey, okey) ==
    IF okey THEN Return("openai")
    ELSE IF akey THEN Return("anthropic")
    ELSE Raise(<<"No AI provider configured. Set ", "OPENAI_API_KEY", " or ",
                 "ANTHROPIC_API_KEY", " environment variable.">>)

\* get_ai_provider: the vendor of the provider object, or the exception
get_ai_provider(akey, okey) ==
    IF akey THEN Return("anthropic")
    ELSE IF okey THEN Return("openai")
    ELSE Raise(<<"No AI provider configured. Set ", "OPENAI_API_KEY", " or ",
                 "ANTHROPIC_API_KEY", " environment variable.">>)

\* lines 186-192 of lal.py: the strings handed to os.system
LalExecute(execute, answer, command) ==
    IF execute /\ answer THEN <<command>> ELSE <<>>

\* mutant: a forced provider without its credential gives way to the other one
LalSelectSilent(provider, akey, okey) ==
    IF provider = "openai" /\ okey THEN Return("openai")
    ELSE IF provider = "anthropic" /\ akey THEN Return("anthropic")
    ELSE get_ai_provider(akey, okey)

\* lines 159-173 of lal.py: the vendor of the provider object ai; a missing
\* credential of the forced provider is printed and main returns, the exception
\* of get_ai_provider is caught at line 194 and printed
LalSelect(provider, akey, okey) ==
    IF provider = "openai"
    THEN IF okey THEN Return("openai") ELSE Raise(<<EnvName("openai"), " not set">>)
    ELSE IF provider = "anthropic"
    THEN IF akey THEN Return("anthropic") ELSE Raise(<<EnvName("anthropic"), " not set">>)
    ELSE get_ai_provider(akey, okey)

\* main of lal.py. answer is what Confirm.ask returns if it is asked.
LalMainResult(akey, okey, args, reply, answer) ==
    LET done(kind, error, hint, calls, replies, command, asked, shell) ==
            Ran("lal", args, kind, error, hint, calls, replies, command, asked,
                IF asked THEN answer ELSE FALSE, shell)
        chosen == LalSelect(args.provider, akey, okey)
    IN
    IF args.config THEN done("config", <<>>, FALSE, <<>>, <<>>, <<>>, FALSE, <<>>)
    ELSE IF ~Truthy(args.prompt) THEN done("usage", <<>>, FALSE, <<>>, <<>>, <<>>, FALSE, <<>>)
    ELSE IF chosen.raised
    THEN done("error", chosen.msg, args.provider = NONE /\ HasAPI(chosen.msg),
              <<>>, <<>>, <<>>, FALSE, <<>>)
    ELSE
      LET c == LalGenerate(chosen.value, reply) IN
      IF c.raised
      THEN done("error", c.msg, HasAPI(c.msg), <<chosen.value>>, <<reply>>, <<>>, FALSE, <<>>)
      ELSE done("command", <<>>, FALSE, <<chosen.value>>, <<reply>>, c.value, args.execute,
                LalExecute(args.execute, answer, c.value))

\* click: the parsed command line
LalArgs ==
    [prompt : {NONE, "", "list all files"}, execute : BOOLEAN,
     provider : {NONE, "openai", "anthropic"}, config : BOOLEAN]

LalMain ==
    /\ program = "lal"
    /\ last.op = "start"
    /\ \E args \in LalArgs, answer \in BOOLEAN :
         LET v == IF args.provider # NONE THEN args.provider
                  ELSE IF ANTHROPIC_API_KEY THEN "anthropic" ELSE "openai"
         IN \E reply \in Replies(v) :
              last' = LalMainResult(ANTHROPIC_API_KEY, OPENAI_API_KEY, args, reply, answer)
    /\ UNCHANGED <<program, ANTHROPIC_API_KEY, OPENAI_API_KEY, usage_tracker, today,
                   reached, threads>>

(* lal_simple.py *)

\* make_anthropic_request / make_openai_request
SimpleRequest(v, reply) ==
    IF ReplyGood(reply) THEN Return(Strip(reply.text))
    ELSE Raise(<<"API error", ": ">> \o Cause(v, reply))

\* x in sys.argv
InArgv(argv, x) == \E i \in 1..Len(argv) : argv[i] = x

\* sys.argv.index(x), counted from 1 as the sequence is
IndexOf(argv, x) == CHOOSE i \in 1..Len(argv) : argv[i] = x /\ \A j \in 1..(i - 1) : argv[j] # x

\* lines 149-155: the word after the first --provider, if there is one
SimpleProvider(argv) ==
    IF InArgv(argv, "--provider") /\ IndexOf(argv, "--provider") < Len(argv)
    THEN argv[IndexOf(argv, "--provider") + 1]
    ELSE NONE

\* line 148
SimpleExecuteFlag(argv) == InArgv(argv, "--execute") \/ InArgv(argv, "-e")

\* str.lower(), on the answers typed
Lower(x) == IF x = "Y" THEN "y" ELSE IF x = "YES" THEN "yes" ELSE x

\* mutant: the answer is not looked at
SimpleExecuteUnasked(execute, answer, command) == IF execute THEN <<command>> ELSE <<>>

\* lines 189-193 of lal_simple.py: the strings handed to os.system
SimpleExecute(execute, answer, command) ==
    IF execute /\ Lower(answer) = "y" THEN <<command>> ELSE <<>>

\* what is typed at input(); EOF makes input() raise EOFError
EOF == "<EOF>"
Answers == {"y", "Y", "n", "yes", "", EOF}

\* lines 161-182 of lal_simple.py: the vendor the request goes to, or the
\* message printed before main returns
SimpleSelect(provider, akey, okey) ==
    IF ~akey /\ ~okey
    THEN Raise(<<"No API keys found. Set ", "ANTHROPIC_API_KEY", " or ", "OPENAI_API_KEY">>)
    ELSE IF provider = "openai"
    THEN IF okey THEN Return("openai") ELSE Raise(<<"OpenAI API key", " not set">>)
    ELSE IF provider = "anthropic"
    THEN IF akey THEN Return("anthropic") ELSE Raise(<<"Anthropic API key", " not set">>)
    ELSE IF akey THEN Return("anthropic") ELSE Return("openai")

\* main of lal_simple.py; argv[1] is the script's name (sys.argv[0])
SimpleMainResult(akey, okey, argv, reply, answer) ==
    LET done(kind, error, calls, replies, command, asked, shell) ==
            Ran("lal_simple", argv, kind, error, FALSE, calls, replies, command, asked,
                IF asked THEN answer ELSE NONE, shell)
    IN
    IF Len(argv) < 2 THEN done("usage", <<>>, <<>>, <<>>, <<>>, FALSE, <<>>)
    ELSE IF argv[2] = "--config" THEN done("config", <<>>, <<>>, <<>>, <<>>, FALSE, <<>>)
    ELSE
      LET execute == SimpleExecuteFlag(argv)
          chosen == SimpleSelect(SimpleProvider(argv), akey, okey)
      IN
      IF chosen.raised THEN done("error", chosen.msg, <<>>, <<>>, <<>>, FALSE, <<>>)
      ELSE
        LET c == SimpleRequest(chosen.value, reply) IN
        IF c.raised THEN done("error", c.msg, <<chosen.value>>, <<reply>>, <<>>, FALSE, <<>>)
        ELSE IF execute /\ answer = EOF
        THEN \* input() raises EOFError, caught at line 197
             done("error", <<"EOFError">>, <<chosen.value>>, <<reply>>, c.value, TRUE, <<>>)
        ELSE done("command", <<>>, <<chosen.value>>, <<reply>>, c.value, execute,
                  SimpleExecute(execute, answer, c.value))

\* command lines: the script, then a prompt, a provider option, an execute flag
SimpleArgvs ==
    {<<"lal_simple.py">>, <<"lal_simple.py", "--config">>,
     <<"lal_simple.py", "--provider", "openai", "list all files">>}
    \cup {<<"lal_simple.py", p>> \o pv \o ex :
            p \in {"", "list all files"},
            pv \in {<<>>, <<"--provider">>, <<"--provider", "openai">>,
                    <<"--provider", "anthropic">>, <<"--provider", "gemini">>},
            ex \in {<<>>, <<"-e">>, <<"--execute">>}}

SimpleMain ==
    /\ program = "lal_simple"
    /\ last.op = "start"
    /\ \E argv \in SimpleArgvs, answer \in Answers :
         LET p == IF Len(argv) >= 2 THEN SimpleProvider(argv) ELSE NONE
             v == IF p \in Vendors THEN p
                  ELSE IF ANTHROPIC_API_KEY THEN "anthropic" ELSE "openai"
         IN \E reply \in Replies(v) :
              last' = SimpleMainResult(ANTHROPIC_API_KEY, OPENAI_API_KEY, argv, reply, answer)
    /\ UNCHANGED <<program, ANTHROPIC_API_KEY, OPENAI_API_KEY, usage_tracker, today,
                   reached, threads>>

----------------------------------------------------------------------------
(* api_server.py under concurrent dispatch: app.run serves each request on  *)
(* its own thread, and usage_tracker is shared without a lock. Each step    *)
(* below is one access to usage_tracker or to the clock.                    *)

Threads == 1..MaxThreads

\* a handler thread: n counts the requests it has taken; day is the day read at
\* line 29, tmp the count loaded at line 38, nth the request's ordinal for its key
Idle(n) == [pc |-> "idle", n |-> n, user |-> "", data |-> JsonBody(TRUE, TRUE, EmptyDict),
            day |-> 0, tmp |-> 0, nth |-> 0]

RECURSIVE Taken(_, _)
Taken(th, t) == IF t = 0 THEN 0 ELSE th[t].n + Taken(th, t - 1)

\* the request bodies and vendor answers drawn under concurrent handling: they
\* never touch usage_tracker, so one of each kind the handler tells apart
ConcBodies == {JsonBody(TRUE, TRUE, EmptyDict), JsonBody(TRUE, FALSE, [prompt |-> "list all files"])}

ConcReplies(v) ==
    {Reply(TRUE, TRUE, 200, TRUE, <<"l", "s">>, v), Reply(TRUE, TRUE, 529, TRUE, <<>>, v),
     Reply(FALSE, FALSE, 0, FALSE, <<>>, v)}

\* lines 104-109 and 29-30: a thread takes a request; the early return touches
\* nothing shared
Begin(t) ==
    /\ program = "api_server"
    /\ threads[t].pc = "idle"
    /\ Taken(threads, MaxThreads) < MaxRequests
    /\ \E user \in Users, data \in ConcBodies :
         IF MissingPrompt(data)
         THEN /\ last' = Handled(user, data,
                                 Response(400, {"error"}, <<"Missing prompt">>, <<>>, 0),
                                 FALSE, FALSE, <<>>, <<>>, today, today, 0)
              /\ threads' = [threads EXCEPT ![t] = Idle(threads[t].n + 1)]
              /\ UNCHANGED reached
         ELSE /\ reached' = [reached EXCEPT ![Key(user, today)] = @ + 1]
              /\ threads' = [threads EXCEPT ![t] =
                               [pc |-> "in", n |-> threads[t].n + 1, user |-> user,
                                data |-> data, day |-> today, tmp |-> 0,
                                nth |-> reached'[Key(user, today)]]]
              /\ UNCHANGED last
    /\ UNCHANGED <<program, ANTHROPIC_API_KEY, OPENAI_API_KEY, usage_tracker, today>>

\* line 32: if key not in usage_tracker
TestIn(t) ==
    /\ threads[t].pc = "in"
    /\ threads' = [threads EXCEPT ![t].pc =
                     IF Key(threads[t].user, threads[t].day) \notin DOMAIN usage_tracker
                     THEN "zero" ELSE "limit"]
    /\ UNCHANGED <<program, ANTHROPIC_API_KEY, OPENAI_API_KEY, usage_tracker, today, last,
                   reached>>

\* line 33: usage_tracker[key] = 0
SetZero(t) ==
    /\ threads[t].pc = "zero"
    /\ usage_tracker' = DictSet(usage_tracker, Key(threads[t].user, threads[t].day), 0)
    /\ threads' = [threads EXCEPT ![t].pc = "limit"]
    /\ UNCHANGED <<program, ANTHROPIC_API_KEY, OPENAI_API_KEY, today, last, reached>>

\* lines 35-36 and 112-116: the limit test; over the limit the request ends in 429
TestLimit(t) ==
    /\ threads[t].pc = "limit"
    /\ IF LimitReached(usage_tracker[Key(threads[t].user, threads[t].day)])
       THEN /\ last' = Handled(threads[t].user, threads[t].data,
                               Response(429, {"error", "message"},
                                        <<"Rate limit exceeded">>, <<>>, 0),
                               TRUE, FALSE, <<>>, <<>>, threads[t].day, today, threads[t].nth)
            /\ threads' = [threads EXCEPT ![t] = Idle(threads[t].n)]
       ELSE /\ threads' = [threads EXCEPT ![t].pc = "load"]
            /\ UNCHANGED last
    /\ UNCHANGED <<program, ANTHROPIC_API_KEY, OPENAI_API_KEY, usage_tracker, today, reached>>

\* line 38, usage_tracker[key] += 1: the load of the count
LoadCount(t) ==
    /\ threads[t].pc = "load"
    /\ threads' = [threads EXCEPT ![t].pc = "store",
                                  ![t].tmp = usage_tracker[Key(threads[t].user, threads[t].day)]]
    /\ UNCHANGED <<program, ANTHROPIC_API_KEY, OPENAI_API_KEY, usage_tracker, today, last,
                   reached>>

\* line 38: the store of the loaded count plus one
StoreCount(t) ==
    /\ threads[t].pc = "store"
    /\ usage_tracker' = DictSet(usage_tracker, Key(threads[t].user, threads[t].day),
                                threads[t].tmp + 1)
    /\ threads' = [threads EXCEPT ![t].pc = "provider", ![t].tmp = 0]
    /\ UNCHANGED <<program, ANTHROPIC_API_KEY, OPENAI_API_KEY, today, last, reached>>

\* lines 118-145: the provider calls, then the remaining count read at line 137
Finish(t) ==
    /\ threads[t].pc = "provider"
    /\ LET akey == ANTHROPIC_API_KEY
           okey == OPENAI_API_KEY
       IN
       \E r1 \in (IF ServerPrimary(akey, okey) = "none" THEN {NoReply}
                  ELSE ConcReplies(ServerPrimary(akey, okey))) :
       \E r2 \in (IF NeedsFallback(akey, okey, r1) THEN ConcReplies("openai")
                  ELSE {NoReply}) :
         LET ph == ProviderPhase(akey, okey, r1, r2) IN
         last' = Handled(threads[t].user, threads[t].data,
                    IF ph.ok
                    THEN Response(200, {"command", "remaining_requests"}, <<>>, ph.command,
                                  Remaining(usage_tracker, threads[t].user, today))
                    ELSE ph.resp,
                    TRUE, TRUE, ph.calls, ph.replies, threads[t].day, today, threads[t].nth)
    /\ threads' = [threads EXCEPT ![t] = Idle(threads[t].n)]
    /\ UNCHANGED <<program, ANTHROPIC_API_KEY, OPENAI_API_KEY, usage_tracker, today, reached>>

----------------------------------------------------------------------------
Init ==
    /\ program \in Programs
    /\ ANTHROPIC_API_KEY \in BOOLEAN
    /\ OPENAI_API_KEY \in BOOLEAN
    /\ usage_tracker = EmptyDict
    /\ today = 0
    /\ last = [op |-> "start"]
    /\ reached = [k \in Keys |-> 0]
    /\ threads = [t \in Threads |-> Idle(0)]

Next == Generate \/ get_usage \/ health_check \/ Tick \/ LalMain \/ SimpleMain

Spec == Init /\ [][Next]_vars

\* One run of a command-line tool, lal.py or lal_simple.py, on its own.
InitCli ==
    /\ program \in {"lal", "lal_simple"}
    /\ ANTHROPIC_API_KEY \in BOOLEAN
    /\ OPENAI_API_KEY \in BOOLEAN
    /\ usage_tracker = EmptyDict
    /\ today = 0
    /\ last = [op |-> "start"]
    /\ reached = [k \in Keys |-> 0]
    /\ threads = [t \in Threads |-> Idle(0)]

NextCli == LalMain \/ SimpleMain

SpecCli == InitCli /\ [][NextCli]_vars

\* The server with its requests handled concurrently, from a state the server is
\* in after `served` requests of one caller were handled one after another and
\* the health check was asked (a state of Spec): none, or up to MaxBelow short
\* of the limit.
InitConc ==
    /\ program = "api_server"
    /\ ANTHROPIC_API_KEY \in BOOLEAN
    /\ OPENAI_API_KEY \in BOOLEAN
    /\ today = 0
    /\ threads = [t \in Threads |-> Idle(0)]
    /\ \E served \in {0} \cup ((DAILY_LIMIT - MaxBelow)..DAILY_LIMIT) :
         /\ usage_tracker = IF served = 0 THEN EmptyDict
                            ELSE DictSet(EmptyDict, Key("u1", 0), served)
         /\ reached = [k \in Keys |-> IF k = Key("u1", 0) THEN served ELSE 0]
         /\ last = IF served = 0 THEN [op |-> "start"]
                   ELSE [op |-> "health", status |-> "healthy"]

NextConc ==
    \/ \E t \in Threads :
         Begin(t) \/ TestIn(t) \/ SetZero(t) \/ TestLimit(t) \/ LoadCount(t)
         \/ StoreCount(t) \/ Finish(t)
    \/ get_usage \/ health_check \/ Tick

SpecConc == InitConc /\ [][NextConc]_vars

----------------------------------------------------------------------------
(* What the claims speak of *)

\* last is the outcome of a /generate request that reached the quota check
Entered == last.op = "generate" /\ last.entered

\* ... and was handled within one calendar day
WithinOneDay == last.day1 = last.day2

\* last is the outcome of a local tool that went on to choose a provider
Dispatched == last.op \in {"lal", "lal_simple"} /\ last.kind \notin {"config", "usage"}

\* the explicit preference of a local tool's invocation, NONE if there is none
Preference ==
    IF last.op = "lal" THEN last.args.provider
    ELSE IF SimpleProvider(last.args) \in Vendors THEN SimpleProvider(last.args)
    ELSE NONE

\* the execute flag of a local tool's invocation
ExecuteFlag ==
    IF last.op = "lal" THEN last.args.execute
    ELSE InArgv(last.args, "-e") \/ InArgv(last.args, "--execute")

\* the vendor's answer carried a command
Good(reply) == reply.arrived /\ reply.json /\ reply.status = 200 /\ reply.shape

\* c is text without its leading and trailing whitespace, otherwise unchanged
IsTrimOf(c, text) ==
    /\ c # <<>> => c[1] \notin Whitespace /\ c[Len(c)] \notin Whitespace
    /\ \E i \in 1..(Len(text) + 1) :
         /\ \A j \in 1..(i - 1) : text[j] \in Whitespace
         /\ i + Len(c) - 1 <= Len(text)
         /\ \A j \in 1..Len(c) : text[i + j - 1] = c[j]
         /\ \A j \in (i + Len(c))..Len(text) : text[j] \in Whitespace

----------------------------------------------------------------------------
(* C1: one caller, one calendar day, requests handled one after another    *)
(* from an empty tracker: the k-th request that carries a prompt, for      *)
(* 1 <= k <= DAILY_LIMIT, passes the quota check and, answered 200,        *)
(* reports remaining_requests = DAILY_LIMIT - k; the (DAILY_LIMIT+1)-th is *)
(* answered 429 and calls no provider.                                     *)
C1_QuotaCountdown ==
    (Entered /\ WithinOneDay) =>
        /\ (last.nth >= 1 /\ last.nth <= DAILY_LIMIT) =>
              /\ last.allowed
              /\ last.resp.status # 429
              /\ last.resp.status = 200 =>
                    last.resp.remaining_requests = DAILY_LIMIT - last.nth
        /\ last.nth = DAILY_LIMIT + 1 =>
              /\ ~last.allowed
              /\ last.resp.status = 429
              /\ last.calls = <<>>

\* the (DAILY_LIMIT+1)-th request of the day has been rejected
C1_Witness ==
    /\ Entered /\ WithinOneDay
    /\ last.nth = DAILY_LIMIT + 1
    /\ last.resp.status = 429

\* the DAILY_LIMIT-th request was answered 200 with nothing remaining
C1_LastAccepted ==
    /\ Entered /\ WithinOneDay
    /\ last.nth = DAILY_LIMIT
    /\ last.resp.status = 200
    /\ last.resp.remaining_requests = 0

(* C2: a /generate request past the quota check, both credentials set:     *)
(* whenever the primary call fails, whatever the failure, exactly one      *)
(* fallback call goes to the other vendor; if that fails too the answer is *)
(* 500 with the fallback vendor's message; never more than 2 calls.        *)
C2_FallbackOnEveryFailure ==
    (Entered /\ last.allowed /\ ANTHROPIC_API_KEY /\ OPENAI_API_KEY) =>
        /\ Len(last.calls) \in {1, 2}
        /\ ~Good(last.replies[1]) =>
              /\ last.calls = <<"anthropic", "openai">>
              /\ ~Good(last.replies[2]) =>
                    /\ last.resp.status = 500
                    /\ \E i \in 1..Len(last.resp.error) : last.resp.error[i] = "openai"

(* C3: neither credential set: dispatching a prompt, in the server or in a  *)
(* local tool, ends in the ConfigError outcome and calls no provider.       *)
NoCredential == ~ANTHROPIC_API_KEY /\ ~OPENAI_API_KEY

ConfigErrorOutcome ==
    IF last.op = "generate"
    THEN last.resp.status = 500 /\ last.resp.error = <<"No API keys configured on server">>
    ELSE /\ last.kind = "error"
         /\ \/ Head(last.error) \in {"No AI provider configured. Set ", "No API keys found. Set "}
            \/ Preference \in Vendors /\ last.error = <<EnvName(Preference), " not set">>

\* the claim as made: violated
C3_NoKeysAlwaysConfigError ==
    (NoCredential /\ (Entered \/ Dispatched)) =>
        ConfigErrorOutcome /\ last.calls = <<>>

\* as amended: the server checks the quota first, and counts these requests
C3_NoKeysConfigErrorOrRateLimited ==
    (NoCredential /\ (Entered \/ Dispatched)) =>
        /\ last.calls = <<>>
        /\ IF Entered /\ last.nth > DAILY_LIMIT
           THEN last.resp.status = 429
           ELSE ConfigErrorOutcome

C3_Witness == NoCredential /\ Entered /\ last.resp.status = 429

(* C4: a local tool hands a string to os.system only if a provider call     *)
(* produced it, the execute flag was given and the human confirmed; at most *)
(* once per invocation; never after an error, without the flag or after a   *)
(* declined confirmation.                                                   *)
Confirmed ==
    IF last.op = "lal" THEN last.asked /\ last.answer = TRUE
    ELSE last.asked /\ last.answer \in {"y", "Y"}

C4_ExecutionGate ==
    last.op \in {"lal", "lal_simple"} =>
        /\ Len(last.shell) <= 1
        /\ last.shell # <<>> =>
              /\ Len(last.calls) = 1
              /\ Good(last.replies[1])
              /\ last.kind = "command"
              /\ last.shell = <<last.command>>
              /\ IsTrimOf(last.command, last.replies[1].text)
              /\ ExecuteFlag
              /\ Confirmed
        /\ (last.kind # "command" \/ ~ExecuteFlag \/ ~Confirmed) => last.shell = <<>>

C4_Witness == last.op = "lal_simple" /\ last.shell # <<>> /\ last.answer = "Y"

\* the confirmation was declined and nothing ran
C4_Declined ==
    /\ last.op = "lal" /\ last.kind = "command" /\ ExecuteFlag /\ last.asked
    /\ ~last.answer /\ last.shell = <<>>

(* C5: a local tool told --provider v: without v's credential it fails with *)
(* a ConfigError naming the credential and calls nobody, also when the      *)
(* other vendor's credential is set; with it, v and only v is called.       *)
HasKey(v) == IF v = "openai" THEN OPENAI_API_KEY ELSE ANTHROPIC_API_KEY

NamesCredential(msg, v) ==
    \E i \in 1..Len(msg) :
       msg[i] \in (IF v = "openai" THEN {"OPENAI_API_KEY", "OpenAI API key"}
                   ELSE {"ANTHROPIC_API_KEY", "Anthropic API key"})

C5_PreferredCredential ==
    (Dispatched /\ Preference \in Vendors) =>
        IF HasKey(Preference)
        THEN last.calls = <<Preference>>
        ELSE /\ last.kind = "error"
             /\ NamesCredential(last.error, Preference)
             /\ last.calls = <<>>
             /\ last.shell = <<>>

C5_Witness ==
    /\ Dispatched /\ Preference = "openai"
    /\ ~OPENAI_API_KEY /\ ANTHROPIC_API_KEY
    /\ last.kind = "error"

(* C6: the caller's count for day D stands at DAILY_LIMIT: the caller's     *)
(* first request handled entirely on day D+1 passes the quota check and,    *)
(* answered 200, reports remaining_requests = DAILY_LIMIT - 1; and no       *)
(* request started on a later day changes the count stored for a day past.  *)
FirstOfNewDayAtLimit ==
    /\ Entered /\ WithinOneDay
    /\ last.day1 > 0
    /\ last.nth = 1
    /\ DictGet(usage_tracker, <<last.user, last.day1 - 1>>, 0) = DAILY_LIMIT

PastDaysKept ==
    \A k \in DOMAIN usage_tracker :
       k[2] < today => k \in DOMAIN usage_tracker' /\ usage_tracker'[k] = usage_tracker[k]

C6_DayRollover ==
    /\ [](FirstOfNewDayAtLimit =>
            /\ last.allowed
            /\ last.resp.status # 429
            /\ last.resp.status = 200 => last.resp.remaining_requests = DAILY_LIMIT - 1)
    /\ [][PastDaysKept]_vars

C6_Witness ==
    /\ FirstOfNewDayAtLimit
    /\ last.resp.status = 200
    /\ usage_tracker[<<last.user, last.day1>>] = 1

(* C7: exactly one credential set and no conflicting preference: dispatch   *)
(* calls that vendor exactly once and never the other; on success the       *)
(* result is the vendor's text trimmed, otherwise unchanged; on failure the *)
(* outcome is an upstream error and no second call is made.                 *)
OneCredential == ANTHROPIC_API_KEY # OPENAI_API_KEY

TheVendor == IF ANTHROPIC_API_KEY THEN "anthropic" ELSE "openai"

SingleCallOutcome ==
    /\ last.calls = <<TheVendor>>
    /\ Len(last.replies) = 1
    /\ IF last.op = "generate"
       THEN IF Good(last.replies[1])
            THEN /\ last.resp.status = 200
                 /\ IsTrimOf(last.resp.command, last.replies[1].text)
            ELSE /\ last.resp.status = 500
                 /\ last.resp.error # <<"No API keys configured on server">>
                 /\ Head(last.resp.error) # "Both APIs failed: "
       ELSE IF Good(last.replies[1])
            THEN IsTrimOf(last.command, last.replies[1].text)
            ELSE /\ last.kind = "error"
                 /\ Head(last.error) \in {"API error", "OpenAI API error",
                                          "Anthropic API error"}

\* the claim as made: violated
C7_SingleCredentialOneCall ==
    (OneCredential /\ (Entered \/ (Dispatched /\ Preference \in {NONE, TheVendor}))) =>
        SingleCallOutcome

\* as amended: of the server's requests, those that passed the quota check
C7_SingleCredentialOneCallPastQuota ==
    /\ (OneCredential /\ ((Entered /\ last.nth <= DAILY_LIMIT)
                          \/ (Dispatched /\ Preference \in {NONE, TheVendor}))) =>
          SingleCallOutcome
    /\ (OneCredential /\ Entered /\ last.nth > DAILY_LIMIT) =>
          last.resp.status = 429 /\ last.calls = <<>>

C7_Witness ==
    /\ OneCredential /\ Entered
    /\ last.resp.status = 200
    /\ last.resp.command # last.replies[1].text

(* C8: a /generate request whose prompt is absent or the empty string ends  *)
(* in 400 before the caller is identified, leaves the tracker alone and     *)
(* calls no provider.                                                       *)
C8_EmptyPromptRejected ==
    (last.op = "generate" /\ last.data.parsed
       /\ (last.data.none \/ "prompt" \notin DOMAIN last.data.obj
           \/ last.data.obj.prompt = "")) =>
        /\ last.resp.status = 400
        /\ ~last.entered
        /\ last.calls = <<>>

(* C9: for every key the count stored in usage_tracker never decreases from *)
(* one state to the next, under every interleaving of concurrent handlers   *)
(* whose read, limit test and write-back are separate steps.                *)
C9_CountNeverDecreases ==
    [][\A k \in DOMAIN usage_tracker :
          k \in DOMAIN usage_tracker' /\ usage_tracker'[k] >= usage_tracker[k]]_vars

(* C10: both credentials set and no explicit preference: the first provider *)
(* call of every request goes to Anthropic, in the server and in both local *)
(* tools; OpenAI is first only when the Anthropic credential is absent; the *)
(* server's fallback call always goes to OpenAI, never to Anthropic.        *)
C10_AnthropicFirst ==
    /\ ((Entered \/ (Dispatched /\ Preference = NONE)) /\ last.calls # <<>>) =>
          /\ (ANTHROPIC_API_KEY /\ OPENAI_API_KEY) => last.calls[1] = "anthropic"
          /\ last.calls[1] = "openai" => ~ANTHROPIC_API_KEY
    /\ (Entered /\ Len(last.calls) >= 2) => last.calls = <<"anthropic", "openai">>

C10_Witness ==
    /\ Entered /\ ANTHROPIC_API_KEY /\ OPENAI_API_KEY
    /\ last.calls = <<"anthropic", "openai">>

(* C11: in every reachable state every stored count lies in 0..DAILY_LIMIT, *)
(* and the remaining value reported by /generate and by GET /usage is never *)
(* negative, under every interleaving of concurrent /generate handlers      *)
(* whose limit test and increment are separate steps.                       *)
C11_QuotaBound ==
    /\ \A k \in DOMAIN usage_tracker :
          0 <= usage_tracker[k] /\ usage_tracker[k] <= DAILY_LIMIT
    /\ (last.op = "generate" /\ last.resp.status = 200) =>
          last.resp.remaining_requests >= 0
    /\ last.op = "usage" => last.remaining_today >= 0

\* the count stored for a key, 0 when the key has no entry
Count(tracker, k) == DictGet(tracker, k, 0)

\* one step charges a key exactly when a request for it passed the quota check
ChargedOnPass ==
    \A k \in Keys :
      LET passed == /\ reached'[k] = reached[k] + 1
                    /\ last'.op = "generate" /\ last'.allowed
      IN  Count(usage_tracker', k) = Count(usage_tracker, k) + (IF passed THEN 1 ELSE 0)

(* C12: requests handled one after another: the count of a (caller, day) is *)
(* the number of its requests that passed the quota check, whatever their   *)
(* outcome (200, 500 without keys, 500 upstream failure); a step raises it  *)
(* by one exactly when a request passes and no step lowers it; requests     *)
(* answered 400 or 429, GET /usage and GET /health leave every count as it  *)
(* was.                                                                     *)
C12_ChargedRegardlessOfOutcome ==
    /\ [](/\ \A k \in Keys :
               Count(usage_tracker, k) =
                 IF reached[k] <= DAILY_LIMIT THEN reached[k] ELSE DAILY_LIMIT
          /\ (Entered /\ last.allowed) =>
               /\ last.resp.status \in {200, 500}
               /\ Count(usage_tracker, Key(last.user, last.day1)) = last.nth
          /\ (Entered /\ ~last.allowed) => last.resp.status = 429
          /\ (last.op = "generate" /\ ~last.entered) => last.resp.status \in {400, 500})
    /\ [][ChargedOnPass]_vars

\* a caller is rate-limited although no request of the day produced a command:
\* the server has no credential, so every counted request ended in 500
C12_Witness ==
    /\ NoCredential /\ Entered /\ last.resp.status = 429
    /\ Count(usage_tracker, Key(last.user, last.day1)) = DAILY_LIMIT

\* a request that ended in an upstream failure was counted
C12_ChargedOnFailure ==
    /\ Entered /\ last.allowed /\ last.resp.status = 500 /\ last.calls # <<>>
    /\ Count(usage_tracker, Key(last.user, last.day1)) = last.nth

====
